---- MODULE Spec2Model ----
(***************************************************************************)
(* PokerOK Session Tracker (src/tracker.py): the session store, its        *)
(* validation layer, the duration computation, the filter and the          *)
(* statistics engine.                                                      *)
(*                                                                         *)
(* Strings are sequences of one-character strings, so that strip(),        *)
(* upper(), the regular expressions and strptime() are computed character  *)
(* by character.  Optional values are <<>> (None) or <<v>>.  Timestamps    *)
(* are ticks of a clock with the resolution of now_iso_local (a second).   *)
(* Profits are integers (whole currency units).                            *)
(***************************************************************************)
EXTENDS Integers, Sequences, FiniteSets, TLC

VARIABLES disk, sessions, cfg, now, last, issued, nedits

vars == <<disk, sessions, cfg, now, last, issued, nedits>>

-----------------------------------------------------------------------------
(* Optional values *)

None == <<>>

Some(v) == <<v>>

IsNone(o) == o = <<>>

Get(o) == o[1]

-----------------------------------------------------------------------------
(* Characters and strings *)

DigitChars == <<"0", "1", "2", "3", "4", "5", "6", "7", "8", "9">>

LowerChars == <<"a", "b", "c", "d", "e", "f", "g", "h", "i", "j", "k", "l", "m",
                "n", "o", "p", "q", "r", "s", "t", "u", "v", "w", "x", "y", "z">>

UpperChars == <<"A", "B", "C", "D", "E", "F", "G", "H", "I", "J", "K", "L", "M",
                "N", "O", "P", "Q", "R", "S", "T", "U", "V", "W", "X", "Y", "Z">>

\* The characters of the model in code point order.
CodePoints == <<" ", "+", "-">> \o DigitChars \o <<":">> \o UpperChars \o LowerChars

IndexOf(seq, c) == CHOOSE i \in 1..Len(seq) : seq[i] = c

Has(seq, c) == \E i \in 1..Len(seq) : seq[i] = c

Ord(c) == IndexOf(CodePoints, c)

IsDigit(c) == Has(DigitChars, c)

DigitVal(c) == IndexOf(DigitChars, c) - 1

IsSpace(c) == c = " "

UpperChar(c) == IF Has(LowerChars, c) THEN UpperChars[IndexOf(LowerChars, c)] ELSE c

LowerChar(c) == IF Has(UpperChars, c) THEN LowerChars[IndexOf(UpperChars, c)] ELSE c

RECURSIVE upper(_)
upper(s) == IF s = <<>> THEN <<>> ELSE <<UpperChar(Head(s))>> \o upper(Tail(s))

RECURSIVE lower(_)
lower(s) == IF s = <<>> THEN <<>> ELSE <<LowerChar(Head(s))>> \o lower(Tail(s))

RECURSIVE lstrip(_)
lstrip(s) == IF s # <<>> /\ IsSpace(Head(s)) THEN lstrip(Tail(s)) ELSE s

RECURSIVE rstrip(_)
rstrip(s) ==
    IF s # <<>> /\ IsSpace(s[Len(s)]) THEN rstrip(SubSeq(s, 1, Len(s) - 1)) ELSE s

strip(s) == rstrip(lstrip(s))

AllDigits(s) == \A i \in 1..Len(s) : IsDigit(s[i])

RECURSIVE DecVal(_)
DecVal(s) == IF s = <<>> THEN 0 ELSE 10 * DecVal(SubSeq(s, 1, Len(s) - 1)) + DigitVal(s[Len(s)])

\* Python's order of str: by code point, a proper prefix first.
RECURSIVE StrLess(_, _)
StrLess(a, b) ==
    IF b = <<>> THEN FALSE
    ELSE IF a = <<>> THEN TRUE
    ELSE IF Head(a) = Head(b) THEN StrLess(Tail(a), Tail(b))
    ELSE Ord(Head(a)) < Ord(Head(b))

\* Two-digit and four-digit rendering of strftime.
Fmt2(n) == <<DigitChars[(n \div 10) + 1], DigitChars[(n % 10) + 1]>>

Fmt4(n) == Fmt2(n \div 100) \o Fmt2(n % 100)

-----------------------------------------------------------------------------
(* Results of the validators: a value, or the TrackerError message *)

Ok(v) == [ok |-> TRUE, val |-> v]

Err(m) == [ok |-> FALSE, msg |-> m]

-----------------------------------------------------------------------------
(* Dates and times *)

IsLeap(y) == (y % 4 = 0) /\ ((y % 100 # 0) \/ (y % 400 = 0))

DaysInMonth(y, m) ==
    IF m = 2 THEN (IF IsLeap(y) THEN 29 ELSE 28)
    ELSE IF m \in {4, 6, 9, 11} THEN 30 ELSE 31

RECURSIVE DaysBeforeMonth(_, _)
DaysBeforeMonth(y, m) == IF m = 1 THEN 0 ELSE DaysBeforeMonth(y, m - 1) + DaysInMonth(y, m - 1)

DaysBeforeYear(y) == (y - 1) * 365 + ((y - 1) \div 4) - ((y - 1) \div 100) + ((y - 1) \div 400)

\* date.toordinal(): 0001-01-01 is day 1.
toordinal(d) == DaysBeforeYear(d.y) + DaysBeforeMonth(d.y, d.m) + d.d

\* DATE_RE = ^\d{4}-\d{2}-\d{2}$
DATE_RE(s) ==
    /\ Len(s) = 10
    /\ \A i \in {1, 2, 3, 4, 6, 7, 9, 10} : IsDigit(s[i])
    /\ s[5] = "-"
    /\ s[8] = "-"

\* TIME_RE = ^\d{2}:\d{2}$
TIME_RE(s) ==
    /\ Len(s) = 5
    /\ \A i \in {1, 2, 4, 5} : IsDigit(s[i])
    /\ s[3] = ":"

parse_date_str(s) ==
    IF ~DATE_RE(s) THEN Err("date must be in YYYY-MM-DD format")
    ELSE LET y == DecVal(SubSeq(s, 1, 4))
             m == DecVal(SubSeq(s, 6, 7))
             d == DecVal(SubSeq(s, 9, 10))
         IN  IF y >= 1 /\ m \in 1..12 /\ d >= 1 /\ d <= DaysInMonth(y, m)
             THEN Ok([y |-> y, m |-> m, d |-> d])
             ELSE Err("invalid date value")

parse_time_str(s) ==
    IF ~TIME_RE(s) THEN Err("time must be in HH:MM format")
    ELSE LET h == DecVal(SubSeq(s, 1, 2))
             m == DecVal(SubSeq(s, 4, 5))
         IN  IF h <= 23 /\ m <= 59
             THEN Ok([h |-> h, m |-> m])
             ELSE Err("invalid time value")

\* strftime("%Y-%m-%d") and strftime("%H:%M")
strftime_date(d) == Fmt4(d.y) \o <<"-">> \o Fmt2(d.m) \o <<"-">> \o Fmt2(d.d)

strftime_time(t) == Fmt2(t.h) \o <<":">> \o Fmt2(t.m)

-----------------------------------------------------------------------------
(* Validators *)

NLH == <<"N", "L", "H">>

PLO == <<"P", "L", "O">>

ALLOWED_GAMES == {NLH, PLO}

validate_game(game) ==
    LET g == upper(strip(game))
    IN  IF g \notin ALLOWED_GAMES THEN Err("game must be one of: NLH, PLO") ELSE Ok(g)

\* STAKE_RE = ^(NL|PLO)\d+$, ignoring case
STAKE_RE(s) ==
    LET u == upper(s)
    IN  \E k \in {2, 3} :
            /\ Len(u) > k
            /\ SubSeq(u, 1, k) = (IF k = 2 THEN <<"N", "L">> ELSE PLO)
            /\ AllDigits(SubSeq(u, k + 1, Len(u)))

validate_stake(stake) ==
    LET st == strip(stake)
    IN  IF st = <<>> THEN Err("stake must be non-empty")
        ELSE IF ~STAKE_RE(st) THEN Ok(st)
        ELSE Ok(upper(st))

\* int(s) of a string: optional blanks, an optional sign, digits.
IsIntLiteral(s) ==
    LET t == strip(s)
        digits == IF t # <<>> /\ Head(t) \in {"+", "-"} THEN Tail(t) ELSE t
    IN  digits # <<>> /\ AllDigits(digits)

IntLiteralVal(s) ==
    LET t == strip(s)
    IN  IF Head(t) = "-" THEN 0 - DecVal(Tail(t))
        ELSE IF Head(t) = "+" THEN DecVal(Tail(t))
        ELSE DecVal(t)

\* A float: a whole number, or the float that is not a number.
Float(v) == [nan |-> FALSE, v |-> v]

NaN == [nan |-> TRUE, v |-> 0]

\* a < b of floats: false whenever one of them is NaN
FloatLess(a, b) == ~a.nan /\ ~b.nan /\ a.v < b.v

FloatAdd(a, b) == IF a.nan \/ b.nan THEN NaN ELSE Float(a.v + b.v)

\* float(s) accepts "nan" in any case, signed or not, blanks around it.
IsNanLiteral(s) ==
    LET t == lower(strip(s))
        body == IF t # <<>> /\ Head(t) \in {"+", "-"} THEN Tail(t) ELSE t
    IN  body = <<"n", "a", "n">>

\* float(s), over whole numbers and NaN
parse_float(s) ==
    IF IsIntLiteral(s) THEN Ok(Float(IntLiteralVal(s)))
    ELSE IF IsNanLiteral(s) THEN Ok(NaN)
    ELSE Err("profit must be a number (e.g., 12.5 or -7.25)")

\* A variant of parse_nonneg_int without the check of the sign.
parse_nonneg_int_unchecked(s, field_name) ==
    IF ~IsIntLiteral(s)
    THEN Err(IF field_name = "hands" THEN "hands must be an integer"
             ELSE "tables must be an integer")
    ELSE Ok(IntLiteralVal(s))

\* field_name is "hands" or "tables"
parse_nonneg_int(s, field_name) ==
    IF ~IsIntLiteral(s)
    THEN Err(IF field_name = "hands" THEN "hands must be an integer"
             ELSE "tables must be an integer")
    ELSE IF IntLiteralVal(s) < 0
    THEN Err(IF field_name = "hands" THEN "hands must be >= 0" ELSE "tables must be >= 0")
    ELSE Ok(IntLiteralVal(s))

-----------------------------------------------------------------------------
(* Duration *)

MinutesPerDay == 1440

\* A variant of calc_duration_minutes that adds the day also when the end is
\* the start.
calc_duration_minutes_wrapping_equal(start_hm, end_hm) ==
    LET st == parse_time_str(start_hm).val
        en == parse_time_str(end_hm).val
        dt_start == st.h * 60 + st.m
        dt_end0 == en.h * 60 + en.m
        dt_end == IF dt_end0 <= dt_start THEN dt_end0 + MinutesPerDay ELSE dt_end0
        mins == dt_end - dt_start
    IN  IF mins > 0 THEN mins ELSE 0

\* start_hm and end_hm are times that parse (the handlers validate them
\* first).  Both datetimes have zero seconds, so delta is whole minutes and
\* int(round(...)) leaves it as it is.
calc_duration_minutes(start_hm, end_hm) ==
    LET st == parse_time_str(start_hm).val
        en == parse_time_str(end_hm).val
        dt_start == st.h * 60 + st.m
        dt_end0 == en.h * 60 + en.m
        dt_end == IF dt_end0 < dt_start THEN dt_end0 + MinutesPerDay ELSE dt_end0
        mins == dt_end - dt_start
    IN  IF mins > 0 THEN mins ELSE 0

-----------------------------------------------------------------------------
(* Bounds of the model *)

\* Sessions added in one behaviour.
MaxAdds == 3

\* Sessions added in one behaviour of SpecEdit.
MaxEditAdds == 2

\* Edits that reach save_sessions in one behaviour.
MaxEdits == 1

\* Seconds the clock advances in one behaviour.
MaxClock == 1

-----------------------------------------------------------------------------
(* Configuration and storage *)

DEFAULT_CONFIG ==
    [currency |-> "USD", data_file |-> "sessions.json", timezone |-> "Europe/Madrid",
     date_format |-> "%Y-%m-%d", week_start |-> "monday"]

ConfigKeys == DOMAIN DEFAULT_CONFIG

\* config.json as load_or_init_config finds it: not there, there without a
\* JSON object in it, or there with the object obj.
F_missing == "missing"

F_no_object == "no object"

F_object == "object"

ConfigFile(kind, obj) == [kind |-> kind, obj |-> obj]

\* A variant of MergedWithDefaults in which the defaults win over the file.
MergedWithDefaults_on_top(obj) ==
    [k \in ConfigKeys \cup DOMAIN obj |-> IF k \in ConfigKeys THEN DEFAULT_CONFIG[k] ELSE obj[k]]

\* merged = dict(DEFAULT_CONFIG); merged.update(cfg)
MergedWithDefaults(obj) ==
    [k \in ConfigKeys \cup DOMAIN obj |-> IF k \in DOMAIN obj THEN obj[k] ELSE DEFAULT_CONFIG[k]]

\* The configuration returned and the object the file holds afterwards, or
\* the TrackerError.
load_or_init_config(file) ==
    IF file.kind = F_missing
    THEN [ok |-> TRUE, val |-> DEFAULT_CONFIG, written |-> TRUE]
    ELSE IF file.kind = F_no_object
    THEN [ok |-> FALSE, msg |-> "Failed to read config.json"]
    ELSE LET merged == MergedWithDefaults(file.obj)
         IN  [ok |-> TRUE, val |-> merged, written |-> merged # file.obj]

\* Session.to_dict / Session.from_dict with json.dumps / json.loads: every
\* field under its own name, None as null.
to_dict(s) ==
    [id |-> s.id, room |-> s.room, date |-> s.date, start_time |-> s.start_time,
     end_time |-> s.end_time, duration_min |-> s.duration_min, stake |-> s.stake,
     game |-> s.game, profit |-> s.profit, currency |-> s.currency, hands |-> s.hands,
     tables |-> s.tables, notes |-> s.notes, created_at |-> s.created_at,
     updated_at |-> s.updated_at]

from_dict(d) ==
    [id |-> d.id, room |-> d.room, date |-> d.date, start_time |-> d.start_time,
     end_time |-> d.end_time, duration_min |-> d.duration_min, stake |-> d.stake,
     game |-> d.game, profit |-> d.profit, currency |-> d.currency, hands |-> d.hands,
     tables |-> d.tables, notes |-> d.notes, created_at |-> d.created_at,
     updated_at |-> d.updated_at]


\* The file's content after save_sessions(data_path, sessions).
save_sessions(ss) == [i \in 1..Len(ss) |-> to_dict(ss[i])]

\* The list main() works on: the file of an earlier command, read back.
load_or_init_sessions(file) == [i \in 1..Len(file) |-> from_dict(file[i])]

RECURSIVE MaxId(_)
MaxId(ss) ==
    IF ss = <<>> THEN 0
    ELSE LET m == MaxId(Tail(ss)) IN IF Head(ss).id > m THEN Head(ss).id ELSE m

\* A variant of next_id that counts the sessions instead of taking the
\* greatest id.
next_id_by_count(ss) == Len(ss) + 1

next_id(ss) == MaxId(ss) + 1

\* The index of the first session with this id, 0 when there is none.
RECURSIVE FirstIndex(_, _, _)
FirstIndex(ss, sid, i) ==
    IF i > Len(ss) THEN 0
    ELSE IF ss[i].id = sid THEN i
    ELSE FirstIndex(ss, sid, i + 1)

find_session_by_id(ss, sid) ==
    LET i == FirstIndex(ss, sid, 1)
    IN  IF i = 0 THEN Err("session id not found") ELSE Ok(i)

now_iso_local == now

-----------------------------------------------------------------------------
(* What the last command did: its name, its arguments, how it ended ("ok",  *)
(* "noop", or "error": the exit through die()) and the message it printed.  *)

Outcome(cmd, args, status, msg) == [cmd |-> cmd, args |-> args, status |-> status, msg |-> msg]

\* No process is running: a command can start (the program is run by one
\* user, one process at a time).
NoProcess == Outcome("none", <<>>, "ok", "")

Idle == last = NoProcess

\* The process of the last command ends; its list of sessions goes with it.
Exit ==
    /\ ~Idle
    /\ last' = NoProcess
    /\ sessions' = <<>>
    /\ UNCHANGED <<disk, cfg, now, issued, nedits>>

-----------------------------------------------------------------------------
(* add *)

\* The non-interactive branch of cmd_add (all six required flags given): the
\* fields in the order the code validates them.
AddFields(args) ==
    LET d == parse_date_str(args.date)
        st == parse_time_str(args.start)
        en == parse_time_str(args.end)
        pr == parse_float(args.profit)
        sk == validate_stake(args.stake)
        gm == validate_game(args.game)
        hands == IF IsNone(args.hands) THEN Ok(None)
                 ELSE LET r == parse_nonneg_int(Get(args.hands), "hands")
                      IN  IF r.ok THEN Ok(Some(r.val)) ELSE r
        tables == IF IsNone(args.tables) THEN Ok(None)
                  ELSE LET r == parse_nonneg_int(Get(args.tables), "tables")
                       IN  IF r.ok THEN Ok(Some(r.val)) ELSE r
        notes == IF IsNone(args.notes) \/ strip(Get(args.notes)) = <<>> THEN None
                 ELSE Some(strip(Get(args.notes)))
    IN  IF ~d.ok THEN d
        ELSE IF ~st.ok THEN st
        ELSE IF ~en.ok THEN en
        ELSE IF ~pr.ok THEN pr
        ELSE IF ~sk.ok THEN sk
        ELSE IF ~gm.ok THEN gm
        ELSE IF ~hands.ok THEN hands
        ELSE IF ~tables.ok THEN tables
        ELSE Ok([date |-> strftime_date(d.val), start_time |-> strftime_time(st.val),
                 end_time |-> strftime_time(en.val), profit |-> pr.val, stake |-> sk.val,
                 game |-> gm.val, hands |-> hands.val, tables |-> tables.val,
                 notes |-> notes])

NewSession(sid, f, currency, ts) ==
    [id |-> sid, room |-> "PokerOK", date |-> f.date, start_time |-> f.start_time,
     end_time |-> f.end_time,
     duration_min |-> calc_duration_minutes(f.start_time, f.end_time),
     stake |-> f.stake, game |-> f.game, profit |-> f.profit, currency |-> currency,
     hands |-> f.hands, tables |-> f.tables, notes |-> f.notes,
     created_at |-> ts, updated_at |-> ts]

cmd_add(args) ==
    /\ Idle
    /\ LET ss == load_or_init_sessions(disk)
           v == AddFields(args)
       IN  IF v.ok
           THEN LET s == NewSession(next_id(ss), v.val, cfg.currency, now_iso_local)
                IN  /\ sessions' = Append(ss, s)
                    /\ disk' = save_sessions(Append(ss, s))
                    /\ issued' = Append(issued, s.id)
                    /\ last' = Outcome("add", args, "ok", "Added session")
           ELSE /\ sessions' = ss
                /\ last' = Outcome("add", args, "error", v.msg)
                /\ UNCHANGED <<disk, issued>>
    /\ UNCHANGED <<cfg, now, nedits>>

-----------------------------------------------------------------------------
(* edit *)

\* The flags of edit in the order cmd_edit looks at them.
EditOrder == <<"date", "start", "end", "profit", "stake", "game", "hands", "tables", "notes">>

EditFlags == {EditOrder[i] : i \in 1..Len(EditOrder)}

Supplied(args) == {f \in EditFlags : ~IsNone(args[f])}

\* One "if args.f is not None:" block of cmd_edit: the session with the
\* field set, or the TrackerError of the field's validator.
ApplyField(s, f, raw) ==
    CASE f = "date" ->
           LET r == parse_date_str(raw)
           IN  IF r.ok THEN Ok([s EXCEPT !.date = strftime_date(r.val)]) ELSE r
      [] f = "start" ->
           LET r == parse_time_str(raw)
           IN  IF r.ok THEN Ok([s EXCEPT !.start_time = strftime_time(r.val)]) ELSE r
      [] f = "end" ->
           LET r == parse_time_str(raw)
           IN  IF r.ok THEN Ok([s EXCEPT !.end_time = strftime_time(r.val)]) ELSE r
      [] f = "profit" ->
           LET r == parse_float(raw)
           IN  IF r.ok THEN Ok([s EXCEPT !.profit = r.val]) ELSE r
      [] f = "stake" ->
           LET r == validate_stake(raw)
           IN  IF r.ok THEN Ok([s EXCEPT !.stake = r.val]) ELSE r
      [] f = "game" ->
           LET r == validate_game(raw)
           IN  IF r.ok THEN Ok([s EXCEPT !.game = r.val]) ELSE r
      [] f = "hands" ->
           LET r == parse_nonneg_int(raw, "hands")
           IN  IF r.ok THEN Ok([s EXCEPT !.hands = Some(r.val)]) ELSE r
      [] f = "tables" ->
           LET r == parse_nonneg_int(raw, "tables")
           IN  IF r.ok THEN Ok([s EXCEPT !.tables = Some(r.val)]) ELSE r
      [] f = "notes" ->
           Ok([s EXCEPT !.notes = IF strip(raw) = <<>> THEN None ELSE Some(strip(raw))])

\* The blocks from the i-th on, in order, on the session object itself: an
\* error leaves the session as the earlier blocks made it.
RECURSIVE ApplyFields(_, _, _)
ApplyFields(s, args, i) ==
    IF i > Len(EditOrder) THEN [ok |-> TRUE, s |-> s, msg |-> ""]
    ELSE IF IsNone(args[EditOrder[i]]) THEN ApplyFields(s, args, i + 1)
    ELSE LET r == ApplyField(s, EditOrder[i], Get(args[EditOrder[i]]))
         IN  IF r.ok THEN ApplyFields(r.val, args, i + 1)
             ELSE [ok |-> FALSE, s |-> s, msg |-> r.msg]

\* A variant of RecomputeDuration that waits for both start and end.
RecomputeDuration_on_both(s, args) ==
    IF ~IsNone(args.start) /\ ~IsNone(args.end)
    THEN [s EXCEPT !.duration_min = calc_duration_minutes(s.start_time, s.end_time)]
    ELSE s

\* "If any of start/end updated, recompute duration"
RecomputeDuration(s, args) ==
    IF ~IsNone(args.start) \/ ~IsNone(args.end)
    THEN [s EXCEPT !.duration_min = calc_duration_minutes(s.start_time, s.end_time)]
    ELSE s

\* A variant of Changed that is set whatever the flags.
Changed_always(args) == TRUE

\* The flag "changed" of cmd_edit once every block has run.
Changed(args) == Supplied(args) # {}

\* A variant of Stamp that also sets created_at.
Stamp_created_too(s, currency, ts) ==
    [s EXCEPT !.currency = currency, !.updated_at = ts, !.created_at = ts]

\* The end of cmd_edit: currency from the configuration, updated_at.
Stamp(s, currency, ts) == [s EXCEPT !.currency = currency, !.updated_at = ts]

cmd_edit(args) ==
    /\ Idle
    /\ LET ss == load_or_init_sessions(disk)
           found == find_session_by_id(ss, args.id)
       IN  IF ~found.ok
           THEN /\ sessions' = ss
                /\ last' = Outcome("edit", args, "error", found.msg)
                /\ UNCHANGED <<disk, nedits>>
           ELSE LET i == found.val
                    r == ApplyFields(ss[i], args, 1)
                IN  IF ~r.ok
                    THEN /\ sessions' = [ss EXCEPT ![i] = r.s]
                         /\ last' = Outcome("edit", args, "error", r.msg)
                         /\ UNCHANGED <<disk, nedits>>
                    ELSE IF ~Changed(args)
                    THEN /\ sessions' = ss
                         /\ last' = Outcome("edit", args, "noop", "Nothing to update")
                         /\ UNCHANGED <<disk, nedits>>
                    ELSE LET s == Stamp(RecomputeDuration(r.s, args), cfg.currency,
                                        now_iso_local)
                         IN  /\ sessions' = [ss EXCEPT ![i] = s]
                             /\ disk' = save_sessions([ss EXCEPT ![i] = s])
                             /\ nedits' = nedits + 1
                             /\ last' = Outcome("edit", args, "ok", "Updated session")
    /\ UNCHANGED <<cfg, now, issued>>

-----------------------------------------------------------------------------
(* delete *)

\* A variant of WithoutId that takes the id for a position in the list.
WithoutId_as_index(ss, sid) ==
    IF sid \in 1..Len(ss) THEN SubSeq(ss, 1, sid - 1) \o SubSeq(ss, sid + 1, Len(ss)) ELSE ss

\* [s for s in sessions if s.id != sid]
RECURSIVE WithoutId(_, _)
WithoutId(ss, sid) ==
    IF ss = <<>> THEN <<>>
    ELSE IF Head(ss).id # sid THEN <<Head(ss)>> \o WithoutId(Tail(ss), sid)
    ELSE WithoutId(Tail(ss), sid)

cmd_delete(sid) ==
    /\ Idle
    /\ LET ss == load_or_init_sessions(disk)
           kept == WithoutId(ss, sid)
       IN  /\ sessions' = kept
           /\ IF Len(kept) = Len(ss)
              THEN /\ last' = Outcome("delete", [id |-> sid], "error", "session id not found")
                   /\ UNCHANGED disk
              ELSE /\ disk' = save_sessions(kept)
                   /\ last' = Outcome("delete", [id |-> sid], "ok", "Deleted session")
    /\ UNCHANGED <<cfg, now, issued, nedits>>

-----------------------------------------------------------------------------
(* config --set: the pieces of the argument between its "=" signs *)

cmd_config(pieces) ==
    /\ Idle
    /\ IF Len(pieces) < 2
       THEN /\ last' = Outcome("config", pieces, "error", "--set must be in key=value format")
            /\ UNCHANGED cfg
       ELSE IF pieces[1] \notin ConfigKeys
       THEN /\ last' = Outcome("config", pieces, "error", "unknown config key")
            /\ UNCHANGED cfg
       ELSE /\ cfg' = [cfg EXCEPT ![pieces[1]] = pieces[2]]
            /\ last' = Outcome("config", pieces, "ok", "Config updated")
    /\ sessions' = load_or_init_sessions(disk)
    /\ UNCHANGED <<disk, now, issued, nedits>>

-----------------------------------------------------------------------------
(* The clock of now_iso_local moves on between commands. *)

Tick ==
    /\ now' = now + 1
    /\ UNCHANGED <<disk, sessions, cfg, last, issued, nedits>>

-----------------------------------------------------------------------------
(* Sorting: sorted() is stable, and with reverse=True it keeps the order of  *)
(* equal keys too (the list is reversed, sorted and reversed again).         *)

RECURSIVE Reverse(_)
Reverse(seq) == IF seq = <<>> THEN <<>> ELSE Reverse(Tail(seq)) \o <<Head(seq)>>

\* key=lambda s: (s.date, s.start_time, s.id)
LessByDateStartId(a, b) ==
    IF a.date # b.date THEN StrLess(a.date, b.date)
    ELSE IF a.start_time # b.start_time THEN StrLess(a.start_time, b.start_time)
    ELSE a.id < b.id

\* key=lambda s: s.profit
LessProfit(a, b) == FloatLess(a.profit, b.profit)

\* a < b of the keys of a sort: of the profits, of the tuples of date, start
\* and id, or of the strings themselves.
KeyLess(key, a, b) ==
    CASE key = "profit" -> LessProfit(a, b)
      [] key = "date_start_id" -> LessByDateStartId(a, b)
      [] key = "itself" -> StrLess(a, b)

\* count_run of list.sort: the length of the run the list starts with, which
\* descends strictly (desc) or does not descend.
RECURSIVE RunLen(_, _, _, _)
RunLen(key, seq, n, desc) ==
    IF n < Len(seq) /\ (KeyLess(key, seq[n + 1], seq[n]) <=> desc)
    THEN RunLen(key, seq, n + 1, desc)
    ELSE n

\* binarysort of list.sort: where the pivot goes among the sorted seq[1..r],
\* as the number of elements before it.
RECURSIVE BinarySearch(_, _, _, _, _)
BinarySearch(key, seq, pivot, l, r) ==
    IF l >= r THEN l
    ELSE LET p == l + ((r - l) \div 2)
         IN  IF KeyLess(key, pivot, seq[p + 1]) THEN BinarySearch(key, seq, pivot, l, p)
             ELSE BinarySearch(key, seq, pivot, p + 1, r)

\* seq[1..start] is sorted; the elements behind go into it one by one.
RECURSIVE BinarySort(_, _, _)
BinarySort(key, seq, start) ==
    IF start >= Len(seq) THEN seq
    ELSE LET pivot == seq[start + 1]
             l == BinarySearch(key, seq, pivot, 0, start)
         IN  BinarySort(key,
                        SubSeq(seq, 1, l) \o <<pivot>> \o SubSeq(seq, l + 1, start)
                            \o SubSeq(seq, start + 2, Len(seq)),
                        start + 1)

\* sorted(seq, key=...) of a list shorter than 64: list.sort finds the first
\* run, turns it round if it descends, and sorts the rest into it.
sorted(key, seq) ==
    IF Len(seq) < 2 THEN seq
    ELSE LET desc == KeyLess(key, seq[2], seq[1])
             n == RunLen(key, seq, 2, desc)
             run == IF desc THEN Reverse(SubSeq(seq, 1, n)) ELSE SubSeq(seq, 1, n)
         IN  BinarySort(key, run \o SubSeq(seq, n + 1, Len(seq)), n)

\* sorted(seq, key=..., reverse=True): the list is reversed, sorted, and
\* reversed again, which keeps the order of equal keys.
sorted_reverse(key, seq) == Reverse(sorted(key, Reverse(seq)))

Take(seq, n) == SubSeq(seq, 1, IF Len(seq) < n THEN Len(seq) ELSE n)

-----------------------------------------------------------------------------
(* Filtering / Periods *)

\* "if x" of an optional string: given and not empty.
Truthy(o) == ~IsNone(o) /\ Get(o) # <<>>

\* A variant of Keeps that drops the sessions of the day of fd too.
Keeps_after_from(s, fd, td, st, gm) ==
    LET d_ord == toordinal(parse_date_str(s.date).val)
    IN  /\ IsNone(fd) \/ ~(d_ord <= Get(fd))
        /\ IsNone(td) \/ ~(d_ord > Get(td))
        /\ IsNone(st) \/ upper(strip(s.stake)) = Get(st)
        /\ IsNone(gm) \/ upper(strip(s.game)) = Get(gm)

\* One pass of the loop of filter_sessions: whether s is kept.  fd and td are
\* ordinals, st and gm upper-cased strings, each optional.
Keeps(s, fd, td, st, gm) ==
    LET d_ord == toordinal(parse_date_str(s.date).val)
    IN  /\ IsNone(fd) \/ ~(d_ord < Get(fd))
        /\ IsNone(td) \/ ~(d_ord > Get(td))
        /\ IsNone(st) \/ upper(strip(s.stake)) = Get(st)
        /\ IsNone(gm) \/ upper(strip(s.game)) = Get(gm)

RECURSIVE SelectKept(_, _, _, _, _)
SelectKept(ss, fd, td, st, gm) ==
    IF ss = <<>> THEN <<>>
    ELSE (IF Keeps(Head(ss), fd, td, st, gm) THEN <<Head(ss)>> ELSE <<>>)
             \o SelectKept(Tail(ss), fd, td, st, gm)

\* The sessions kept, or the TrackerError of a date that does not parse.
filter_sessions(ss, from_date, to_date, stake, game) ==
    LET f == IF Truthy(from_date) THEN parse_date_str(Get(from_date)) ELSE Ok(<<>>)
        t == IF Truthy(to_date) THEN parse_date_str(Get(to_date)) ELSE Ok(<<>>)
        fd == IF Truthy(from_date) THEN Some(toordinal(f.val)) ELSE None
        td == IF Truthy(to_date) THEN Some(toordinal(t.val)) ELSE None
        st == IF Truthy(stake) THEN Some(upper(strip(Get(stake)))) ELSE None
        gm == IF Truthy(game) THEN Some(upper(strip(Get(game)))) ELSE None
    IN  IF ~f.ok THEN f
        ELSE IF ~t.ok THEN t
        ELSE Ok(SelectKept(ss, fd, td, st, gm))

\* date.fromordinal
fromordinal(n) ==
    LET y == CHOOSE yy \in ((n \div 366) + 1)..((n \div 365) + 1) :
                 DaysBeforeYear(yy) < n /\ n <= DaysBeforeYear(yy + 1)
        r == n - DaysBeforeYear(y)
        m == CHOOSE mm \in 1..12 :
                 DaysBeforeMonth(y, mm) < r /\ r <= DaysBeforeMonth(y, mm) + DaysInMonth(y, mm)
    IN  [y |-> y, m |-> m, d |-> r - DaysBeforeMonth(y, m)]

\* date.weekday(): Monday is 0
weekday(d) == (toordinal(d) + 6) % 7

P_all == <<"a", "l", "l">>

P_day == <<"d", "a", "y">>

P_week == <<"w", "e", "e", "k">>

P_month == <<"m", "o", "n", "t", "h">>

P_year == <<"y", "e", "a", "r">>

D_first == <<"0", "0", "0", "1", "-", "0", "1", "-", "0", "1">>

D_last == <<"9", "9", "9", "9", "-", "1", "2", "-", "3", "1">>

\* The pair <<from, to>> of the period, or the TrackerError.
compute_period_range(period, today) ==
    LET p == strip(lower(period))
    IN  IF p = P_all THEN Ok(<<D_first, D_last>>)
        ELSE IF p = P_day THEN Ok(<<strftime_date(today), strftime_date(today)>>)
        ELSE IF p = P_week
        THEN LET start == fromordinal(toordinal(today) - weekday(today))
                 end == fromordinal(toordinal(start) + 6)
             IN  Ok(<<strftime_date(start), strftime_date(end)>>)
        ELSE IF p = P_month
        THEN LET start == [today EXCEPT !.d = 1]
                 next_month == IF start.m = 12 THEN [start EXCEPT !.y = start.y + 1, !.m = 1]
                               ELSE [start EXCEPT !.m = start.m + 1]
                 end == fromordinal(toordinal(next_month) - 1)
             IN  Ok(<<strftime_date(start), strftime_date(end)>>)
        ELSE IF p = P_year
        THEN Ok(<<strftime_date([today EXCEPT !.m = 1, !.d = 1]),
                  strftime_date([today EXCEPT !.m = 12, !.d = 31])>>)
        ELSE Err("period must be one of: day, week, month, year, all")

-----------------------------------------------------------------------------
(* Statistics *)

\* sum(s.duration_min for s in sessions)
RECURSIVE SumMinutes(_)
SumMinutes(ss) == IF ss = <<>> THEN 0 ELSE Head(ss).duration_min + SumMinutes(Tail(ss))

\* sum((s.hands or 0) for s in sessions)
RECURSIVE SumHands(_)
SumHands(ss) ==
    IF ss = <<>> THEN 0
    ELSE (IF IsNone(Head(ss).hands) THEN 0 ELSE Get(Head(ss).hands)) + SumHands(Tail(ss))

\* sum(s.profit for s in sessions): from the left, starting at 0
RECURSIVE SumProfit(_)
SumProfit(ss) ==
    IF ss = <<>> THEN Float(0)
    ELSE FloatAdd(SumProfit(SubSeq(ss, 1, Len(ss) - 1)), ss[Len(ss)].profit)

\* The quotient num / den of two whole numbers, den not 0; and of a float and
\* such a quotient.
Ratio(num, den) == [nan |-> FALSE, num |-> num, den |-> den]

FloatOver(f, r) ==
    IF f.nan THEN [nan |-> TRUE, num |-> 0, den |-> 1] ELSE Ratio(f.v * r.den, r.num)

Zero == Ratio(0, 1)

\* A variant of Positive without the test.
Positive_always(r) == TRUE

\* total_hours > 0
Positive(r) == ~r.nan /\ ((r.num > 0 /\ r.den > 0) \/ (r.num < 0 /\ r.den < 0))

\* best = sorted(sessions, key=profit, reverse=True)[:3]
Best(ss) == Take(sorted_reverse("profit", ss), 3)

\* worst = sorted(sessions, key=profit)[:3]
Worst(ss) == Take(sorted("profit", ss), 3)

compute_stats_block(ss) ==
    LET count == Len(ss)
        total_profit == SumProfit(ss)
        total_min == SumMinutes(ss)
        avg_profit == IF count # 0 THEN FloatOver(total_profit, Ratio(count, 1)) ELSE Zero
        total_hours == IF total_min # 0 THEN Ratio(total_min, 60) ELSE Zero
        profit_per_hour == IF Positive(total_hours) THEN FloatOver(total_profit, total_hours)
                           ELSE Zero
        hands_total == SumHands(ss)
        hands_known == \E i \in 1..Len(ss) : ~IsNone(ss[i].hands)
        hands_per_hour == IF hands_known /\ Positive(total_hours)
                          THEN Some(Ratio(hands_total * total_hours.den, total_hours.num))
                          ELSE None
    IN  [count |-> count, total_profit |-> total_profit, avg_profit |-> avg_profit,
         total_min |-> total_min, profit_per_hour |-> profit_per_hour,
         hands_total |-> IF hands_known THEN Some(hands_total) ELSE None,
         hands_per_hour |-> hands_per_hour, best |-> Best(ss), worst |-> Worst(ss)]

BY_stake == <<"s", "t", "a", "k", "e">>

BY_game == <<"g", "a", "m", "e">>

GroupKey(s, by) == IF by = BY_stake THEN s.stake ELSE s.game

\* The keys of the dict groups, in the order of their first session.
RECURSIVE GroupKeys(_, _)
GroupKeys(ss, by) ==
    IF ss = <<>> THEN <<>>
    ELSE LET rest == GroupKeys(SubSeq(ss, 1, Len(ss) - 1), by)
             key == GroupKey(ss[Len(ss)], by)
         IN  IF \E i \in 1..Len(rest) : rest[i] = key THEN rest ELSE Append(rest, key)

\* groups[key]: the sessions of the key, as they follow each other.
RECURSIVE GroupOf(_, _, _)
GroupOf(ss, by, key) ==
    IF ss = <<>> THEN <<>>
    ELSE (IF GroupKey(Head(ss), by) = key THEN <<Head(ss)>> ELSE <<>>)
             \o GroupOf(Tail(ss), by, key)

\* The groups as the loop over sorted(groups.keys()) prints them.
RECURSIVE GroupBlocks(_, _, _)
GroupBlocks(ss, by, keys) ==
    IF keys = <<>> THEN <<>>
    ELSE <<[key |-> Head(keys), sessions |-> GroupOf(ss, by, Head(keys)),
            blk |-> compute_stats_block(GroupOf(ss, by, Head(keys)))]>>
             \o GroupBlocks(ss, by, Tail(keys))

\* A variant of Groups with the keys in the order of their first session.
Groups_unsorted(ss, by) == GroupBlocks(ss, by, GroupKeys(ss, by))

Groups(ss, by) == GroupBlocks(ss, by, sorted("itself", GroupKeys(ss, by)))

\* The range cmd_stats filters by, or the TrackerError.
StatsRange(args, today) ==
    IF Truthy(args.from_date) \/ Truthy(args.to_date)
    THEN LET f == IF Truthy(args.from_date) THEN parse_date_str(Get(args.from_date))
                  ELSE Ok(<<>>)
             t == IF Truthy(args.to_date) THEN parse_date_str(Get(args.to_date))
                  ELSE Ok(<<>>)
         IN  IF ~f.ok THEN f
             ELSE IF ~t.ok THEN t
             ELSE Ok(<<IF IsNone(args.from_date) THEN Some(D_first) ELSE args.from_date,
                       IF IsNone(args.to_date) THEN Some(D_last) ELSE args.to_date>>)
    ELSE LET r == compute_period_range(args.period, today)
         IN  IF r.ok THEN Ok(<<Some(r.val[1]), Some(r.val[2])>>) ELSE r

\* What a call leaves: as Outcome, and what was returned or printed.
Returned(cmd, args, status, msg, ret) ==
    [cmd |-> cmd, args |-> args, status |-> status, msg |-> msg, ret |-> ret]

NoStats == [filtered |-> <<>>, overall |-> <<>>, groups |-> <<>>]

cmd_stats(args, today) ==
    /\ Idle
    /\ LET ss == load_or_init_sessions(disk)
           range == StatsRange(args, today)
           found == IF range.ok
                    THEN filter_sessions(ss, range.val[1], range.val[2], args.stake, args.game)
                    ELSE range
       IN  /\ sessions' = ss
           /\ IF ~found.ok
              THEN last' = Returned("stats", args, "error", found.msg, NoStats)
              ELSE LET filtered == sorted("date_start_id", found.val)
                       overall == compute_stats_block(filtered)
                       by == IF IsNone(args.by) THEN <<>> ELSE lower(strip(Get(args.by)))
                   IN  IF by \in {BY_stake, BY_game} /\ filtered # <<>>
                       THEN last' = Returned("stats", args, "ok", "",
                                             [filtered |-> filtered, overall |-> overall,
                                              groups |-> Groups(filtered, by)])
                       ELSE IF Truthy(args.by)
                       THEN last' = Returned("stats", args, "error",
                                             "--by must be one of: stake, game",
                                             [filtered |-> filtered, overall |-> overall,
                                              groups |-> <<>>])
                       ELSE last' = Returned("stats", args, "ok", "",
                                             [filtered |-> filtered, overall |-> overall,
                                              groups |-> <<>>])
    /\ UNCHANGED <<disk, cfg, now, issued, nedits>>

-----------------------------------------------------------------------------
(* Calls of the functions on their own *)

call_calc_duration_minutes(sh, sm, eh, em) ==
    /\ Idle
    /\ LET start_hm == Fmt2(sh) \o <<":">> \o Fmt2(sm)
           end_hm == Fmt2(eh) \o <<":">> \o Fmt2(em)
       IN  last' = Returned("calc_duration_minutes",
                            [start_hm |-> start_hm, end_hm |-> end_hm,
                             sh |-> sh, sm |-> sm, eh |-> eh, em |-> em],
                            "ok", "", calc_duration_minutes(start_hm, end_hm))
    /\ UNCHANGED <<disk, sessions, cfg, now, issued, nedits>>

call_filter_sessions(args) ==
    /\ Idle
    /\ LET ss == load_or_init_sessions(disk)
           r == filter_sessions(ss, args.from_date, args.to_date, args.stake, args.game)
       IN  /\ sessions' = ss
           /\ last' = IF r.ok THEN Returned("filter_sessions", args, "ok", "", r.val)
                      ELSE Returned("filter_sessions", args, "error", r.msg, <<>>)
    /\ UNCHANGED <<disk, cfg, now, issued, nedits>>

\* cfg is the object of config.json; kind tells whether the file is there and
\* holds the object.
call_load_or_init_config(kind) ==
    /\ Idle
    /\ LET file == ConfigFile(kind, cfg)
           r == load_or_init_config(file)
       IN  IF r.ok
           THEN /\ cfg' = IF r.written THEN r.val ELSE cfg
                /\ last' = Returned("load_or_init_config", file, "ok", "", r.val)
           ELSE /\ cfg' = cfg
                /\ last' = Returned("load_or_init_config", file, "error", r.msg, <<>>)
    /\ UNCHANGED <<disk, sessions, now, issued, nedits>>

call_compute_stats_block ==
    /\ Idle
    /\ LET ss == load_or_init_sessions(disk)
       IN  /\ sessions' = ss
           /\ last' = Returned("compute_stats_block", <<>>, "ok", "", compute_stats_block(ss))
    /\ UNCHANGED <<disk, cfg, now, issued, nedits>>

-----------------------------------------------------------------------------
(* Inputs *)

D_0615 == <<"2", "0", "2", "4", "-", "0", "6", "-", "1", "5">>

D_0616 == <<"2", "0", "2", "4", "-", "0", "6", "-", "1", "6">>

D_0230 == <<"2", "0", "2", "4", "-", "0", "2", "-", "3", "0">>

D_short == <<"2", "0", "2", "4", "-", "6", "-", "1">>

T_2200 == <<"2", "2", ":", "0", "0">>

T_0200 == <<"0", "2", ":", "0", "0">>

T_0930 == <<"0", "9", ":", "3", "0">>

T_1115 == <<"1", "1", ":", "1", "5">>

T_2400 == <<"2", "4", ":", "0", "0">>

T_short == <<"9", ":", "0", "0">>

\* add --date 2024-06-15 --start 22:00 --end 02:00 --profit 12 --stake nl10 --game nlh
AddBase ==
    [date |-> D_0615, start |-> T_2200, end |-> T_0200, profit |-> <<"1", "2">>,
     stake |-> <<"n", "l", "1", "0">>, game |-> <<"n", "l", "h">>,
     hands |-> None, tables |-> None, notes |-> None]

\* The same with one flag replaced by a value its validator rejects.
AddBad ==
    { [AddBase EXCEPT !.date = D_0230], [AddBase EXCEPT !.date = D_short],
      [AddBase EXCEPT !.start = T_2400], [AddBase EXCEPT !.end = T_short],
      [AddBase EXCEPT !.profit = <<"a", "b", "c">>], [AddBase EXCEPT !.stake = <<" ">>],
      [AddBase EXCEPT !.game = <<"x", "y", "z">>],
      [AddBase EXCEPT !.hands = Some(<<"-", "1">>)],
      [AddBase EXCEPT !.tables = Some(<<"x">>)] }

AddArgs == {AddBase} \cup AddBad

\* For each flag of edit a value its validator accepts and one it rejects
\* (notes are never rejected).
EditGood ==
    [date |-> D_0616, start |-> T_0930, end |-> T_1115, profit |-> <<"-", "7">>,
     stake |-> <<"Z", "o", "o", "m", " ", "5">>, game |-> <<" ", "p", "l", "o">>,
     hands |-> <<"0">>, tables |-> <<"2">>, notes |-> <<"g", "g">>]

EditBad ==
    [date |-> D_short, start |-> T_2400, end |-> T_short, profit |-> <<"a", "b", "c">>,
     stake |-> <<" ">>, game |-> <<"x", "y", "z">>, hands |-> <<"-", "1">>,
     tables |-> <<"x">>]

NoFlags == [f \in EditFlags |-> None]

AllGood == [f \in EditFlags |-> Some(EditGood[f])]

\* Patches every flag of which is accepted: one flag, start and end, every
\* flag.
GoodPatches ==
    {AllGood, [NoFlags EXCEPT !.start = Some(T_0930), !.end = Some(T_1115)]}
        \cup {[NoFlags EXCEPT ![f] = Some(EditGood[f])] : f \in EditFlags}

\* Every flag given, one of them rejected (notes never are): the flags before
\* it are accepted and applied, the flags after it are not looked at.
BadPatches == {[AllGood EXCEPT ![f] = Some(EditBad[f])] : f \in EditFlags \ {"notes"}}

FewPatches == {NoFlags, AllGood} \cup BadPatches

EditPatches == {NoFlags} \cup GoodPatches

WithId(patch, sid) == [f \in EditFlags \cup {"id"} |-> IF f = "id" THEN sid ELSE patch[f]]

\* Ids a command may name: those add can have given, and one more.
Ids == 1..(MaxAdds + 1)

EditIds == 1..MaxEditAdds

ConfigSets == {<<"currency", "EUR">>, <<"colour", "red">>, <<"currency">>}

-----------------------------------------------------------------------------
(* The store: one command after another, each a run of main() *)

Init ==
    /\ disk = <<>>
    /\ sessions = <<>>
    /\ cfg = DEFAULT_CONFIG
    /\ now = 0
    /\ last = NoProcess
    /\ issued = <<>>
    /\ nedits = 0

\* Every command and every way a command fails, within one second of the
\* clock; AllGood is the one patch that edits.
Next ==
    \/ Len(issued) < MaxAdds /\ \E a \in AddArgs : cmd_add(a)
    \/ nedits < MaxEdits /\ \E p \in FewPatches, sid \in Ids : cmd_edit(WithId(p, sid))
    \/ \E sid \in Ids : cmd_delete(sid)
    \/ \E c \in ConfigSets : cmd_config(c)
    \/ Exit

Spec == Init /\ [][Next]_vars

\* add and edit as time passes and the currency changes, on fewer sessions,
\* with every patch of EditPatches.
NextEdit ==
    \/ Len(issued) < MaxEditAdds /\ cmd_add(AddBase)
    \/ nedits < MaxEdits /\ \E p \in EditPatches, sid \in EditIds : cmd_edit(WithId(p, sid))
    \/ cmd_config(<<"currency", "EUR">>)
    \/ now < MaxClock /\ Idle /\ Tick
    \/ Exit

SpecEdit == Init /\ [][NextEdit]_vars

-----------------------------------------------------------------------------
(* The store as the times of its sessions are edited *)

\* Edits that reach save_sessions in one behaviour of SpecTimes.
MaxTimesEdits == 2

TimesAdds == {AddBase, [AddBase EXCEPT !.start = T_0930, !.end = T_1115, !.game = PLO]}

\* start only, end only (once to the start of AddBase), both, another field,
\* and a start that is applied before the game is rejected.
TimesPatches ==
    {[NoFlags EXCEPT !.start = Some(T_0930)], [NoFlags EXCEPT !.end = Some(T_1115)],
     [NoFlags EXCEPT !.end = Some(T_2200)],
     [NoFlags EXCEPT !.start = Some(T_0930), !.end = Some(T_1115)],
     [NoFlags EXCEPT !.profit = Some(EditGood.profit)],
     [NoFlags EXCEPT !.game = Some(EditGood.game)],
     [NoFlags EXCEPT !.start = Some(T_0930), !.game = Some(EditBad.game)]}

NextTimes ==
    \/ Len(issued) < MaxEditAdds /\ \E a \in TimesAdds : cmd_add(a)
    \/ nedits < MaxTimesEdits
           /\ \E p \in TimesPatches, sid \in EditIds : cmd_edit(WithId(p, sid))
    \/ \E sid \in EditIds : cmd_delete(sid)
    \/ Exit

SpecTimes == Init /\ [][NextTimes]_vars

-----------------------------------------------------------------------------
(* calc_duration_minutes on its own *)

DurHours == {0, 2, 9, 11, 22, 23}

DurMinutes == {0, 15, 30, 59}

NextDur ==
    \/ \E sh \in DurHours, sm \in DurMinutes, eh \in DurHours, em \in DurMinutes :
           call_calc_duration_minutes(sh, sm, eh, em)
    \/ Exit

SpecDur == Init /\ [][NextDur]_vars

-----------------------------------------------------------------------------
(* Stores to query: what add leaves, one session after the other *)

RECURSIVE StoreOf(_)
StoreOf(adds) ==
    IF adds = <<>> THEN <<>>
    ELSE LET ss == StoreOf(SubSeq(adds, 1, Len(adds) - 1))
         IN  Append(ss, NewSession(next_id(ss), AddFields(adds[Len(adds)]).val,
                                   DEFAULT_CONFIG.currency, 0))

ListsUpTo(S, n) == UNION {[1..k -> S] : k \in 0..n}

InitWith(stores) ==
    /\ disk \in {save_sessions(ss) : ss \in stores}
    /\ sessions = <<>>
    /\ cfg = DEFAULT_CONFIG
    /\ now = 0
    /\ last = NoProcess
    /\ issued = <<>>
    /\ nedits = 0

-----------------------------------------------------------------------------
(* filter_sessions and cmd_stats on stores of sessions of two dates and     *)
(* three pairs of stake and game                                             *)

\* Sessions in a store to filter.
MaxFilterLen == 2

D_0601 == <<"2", "0", "2", "4", "-", "0", "6", "-", "0", "1">>

D_0630 == <<"2", "0", "2", "4", "-", "0", "6", "-", "3", "0">>

K_nl10 == <<"n", "l", "1", "0">>

K_zoom == <<"Z", "o", "o", "m", " ", "5">>

G_nlh == <<"n", "l", "h">>

G_plo == <<"p", "l", "o">>

FilterAdds ==
    {[AddBase EXCEPT !.date = d, !.stake = kg[1], !.game = kg[2]] :
        d \in {D_0615, D_0630},
        kg \in {<<K_nl10, G_nlh>>, <<K_nl10, G_plo>>, <<K_zoom, G_plo>>}}

FilterStores == {StoreOf(adds) : adds \in ListsUpTo(FilterAdds, MaxFilterLen)}

\* Constraints: absent, empty, padded with blanks, in another case, a date
\* that is none.
FilterArgs ==
    {[from_date |-> f, to_date |-> t, stake |-> kg[1], game |-> kg[2]] :
        f \in {None, Some(D_0601), Some(D_0615), Some(D_0616)},
        t \in {None, Some(D_0615), Some(D_0630)},
        kg \in {<<None, None>>, <<Some(<<>>), None>>,
                <<Some(<<" ", "n", "l", "1", "0">>), None>>,
                <<Some(<<"Z", "O", "O", "M", " ", "5">>), Some(<<"p", "l", "o", " ">>)>>,
                <<None, Some(NLH)>>, <<Some(K_nl10), Some(<<"P", "l", "O">>)>>}}
      \cup {[from_date |-> Some(D_0230), to_date |-> None, stake |-> None, game |-> None],
            [from_date |-> Some(<<>>), to_date |-> Some(<<>>), stake |-> None,
             game |-> Some(<<>>)]}

StatsBys ==
    {None, Some(BY_stake), Some(BY_game), Some(<<" ", "G", "a", "m", "e">>),
     Some(<<"d", "a", "t", "e">>)}

\* stats over everything or a range, with every --by; and over every period.
StatsArgs ==
    [period : {P_all}, from_date : {None, Some(D_0616)}, to_date : {None, Some(D_0615)},
     stake : {None, Some(K_nl10)}, game : {None}, by : StatsBys]
      \cup [period : {P_day, P_week, P_month, P_year, <<" ", "A", "L", "L">>,
                      <<"e", "v", "e", "r">>},
            from_date : {None}, to_date : {None}, stake : {None}, game : {None},
            by : {Some(BY_game)}]

\* The day the command runs.
Todays == {[y |-> 2024, m |-> 6, d |-> 15], [y |-> 2024, m |-> 12, d |-> 31]}

NextFilter ==
    \/ \E a \in FilterArgs : call_filter_sessions(a)
    \/ \E a \in StatsArgs, today \in Todays : cmd_stats(a, today)
    \/ Exit

SpecFilter == InitWith(FilterStores) /\ [][NextFilter]_vars

-----------------------------------------------------------------------------
(* compute_stats_block on stores of sessions of four profits, one of them   *)
(* NaN, with and without hands and time played                               *)

\* Sessions in a store to summarise.
MaxStatsLen == 4

T_0900 == <<"0", "9", ":", "0", "0">>

StatsAdds ==
    {[AddBase EXCEPT !.profit = pr] :
        pr \in {<<"-", "5">>, <<"0">>, <<"7">>, <<"n", "a", "n">>}}
      \cup {[AddBase EXCEPT !.profit = <<"7">>, !.start = T_0900, !.end = T_0900,
                            !.hands = Some(<<"1", "0", "0">>)],
            [AddBase EXCEPT !.profit = <<"0">>, !.start = T_0900, !.end = T_0900,
                            !.hands = Some(<<"0">>)]}

StatsStores == {StoreOf(adds) : adds \in ListsUpTo(StatsAdds, MaxStatsLen)}

NextStats ==
    \/ call_compute_stats_block
    \/ Exit

SpecStats == InitWith(StatsStores) /\ [][NextStats]_vars

-----------------------------------------------------------------------------
(* load_or_init_config on objects with any of the recognized keys, with the  *)
(* currency changed or not, with and without a key that is not recognized    *)

EUR_CONFIG == [DEFAULT_CONFIG EXCEPT !.currency = "EUR"]

WithColour(obj) ==
    [k \in DOMAIN obj \cup {"colour"} |-> IF k = "colour" THEN "red" ELSE obj[k]]

KnownObjects ==
    {[k \in keys |-> base[k]] : keys \in SUBSET ConfigKeys, base \in {DEFAULT_CONFIG, EUR_CONFIG}}

ConfigObjects == KnownObjects \cup {WithColour(obj) : obj \in KnownObjects}

InitConfig ==
    /\ disk = <<>>
    /\ sessions = <<>>
    /\ cfg \in ConfigObjects
    /\ now = 0
    /\ last = NoProcess
    /\ issued = <<>>
    /\ nedits = 0

NextConfig ==
    \/ \E kind \in {F_missing, F_no_object, F_object} : call_load_or_init_config(kind)
    \/ Exit

SpecConfig == InitConfig /\ [][NextConfig]_vars

-----------------------------------------------------------------------------
(* Properties of the store *)

Indices(ss) == 1..Len(ss)

IdsOf(ss) == {ss[i].id : i \in Indices(ss)}

\* The list without its i-th session.
RemoveAt(ss, i) == SubSeq(ss, 1, i - 1) \o SubSeq(ss, i + 1, Len(ss))

\* C1: the id given to each newly added session is strictly greater than the
\* id of every session added before it, so that no id is given twice, also
\* after the session that held it was deleted.
C1_IdsNeverReused == \A i, j \in 1..Len(issued) : i < j => issued[i] < issued[j]

StoreIdsPositiveAndUnique(ss) ==
    /\ \A i \in Indices(ss) : ss[i].id \in Nat /\ ss[i].id >= 1
    /\ \A i, j \in Indices(ss) : ss[i].id = ss[j].id => i = j

\* A step of edit leaves the id at every position of the list and of the file
\* as it was.
EditKeepsIds ==
    (Idle /\ last'.cmd = "edit") =>
        /\ Len(disk') = Len(disk)
        /\ Len(sessions') = Len(disk)
        /\ \A i \in Indices(disk) : disk'[i].id = disk[i].id /\ sessions'[i].id = disk[i].id

\* C2: in every state reached from the empty store by add, edit and delete,
\* every id in the store (the file, and the list of the running command) is a
\* positive integer, no two sessions have the same id, and edit changes no id.
C2_IdsPositiveUniqueStable ==
    /\ [](StoreIdsPositiveAndUnique(disk) /\ StoreIdsPositiveAndUnique(sessions))
    /\ [][EditKeepsIds]_vars

\* An edit has succeeded on a store of at least two sessions from which a
\* session was deleted before.
C2_Witness ==
    /\ last.cmd = "edit"
    /\ last.status = "ok"
    /\ Len(disk) >= 2
    /\ Len(issued) > Len(disk)

\* C3: an edit of an existing id with no field supplied reports "nothing to
\* update" and changes nothing: the file is as it was (no save), and every
\* field of every session of the list, updated_at among them, is as loaded.
C3_EditWithoutFieldsChangesNothing ==
    [][(/\ Idle
        /\ last'.cmd = "edit"
        /\ Supplied(last'.args) = {}
        /\ last'.args.id \in IdsOf(disk))
       => (/\ last'.status = "noop"
           /\ last'.msg = "Nothing to update"
           /\ disk' = disk
           /\ sessions' = load_or_init_sessions(disk))]_vars

\* An edit without fields has ended, of a session whose updated_at is no
\* longer the time of the clock and whose currency is no longer the
\* configured one, in a store of two sessions.
C3_Witness ==
    /\ last.cmd = "edit"
    /\ last.status = "noop"
    /\ Len(disk) = 2
    /\ \E i \in Indices(disk) :
        /\ disk[i].id = last.args.id
        /\ disk[i].updated_at < now
        /\ disk[i].currency # cfg.currency

\* C4: delete of an id no session has fails with "not found" and leaves the
\* list (same records, same order) and the file as they were; delete of an
\* existing id removes exactly that record, keeps the order of the others, and
\* saves the reduced store.
C4_Delete ==
    [][(Idle /\ last'.cmd = "delete") =>
        LET ss == load_or_init_sessions(disk)
            sid == last'.args.id
        IN  IF sid \notin IdsOf(ss)
            THEN /\ last'.status = "error"
                 /\ last'.msg = "session id not found"
                 /\ sessions' = ss
                 /\ disk' = disk
            ELSE /\ last'.status = "ok"
                 /\ \E i \in Indices(ss) : ss[i].id = sid /\ sessions' = RemoveAt(ss, i)
                 /\ disk' = save_sessions(sessions')]_vars

\* The second of three sessions has been deleted.
C4_Witness ==
    /\ last.cmd = "delete"
    /\ last.status = "ok"
    /\ last.args.id = 2
    /\ Len(disk) = 2
    /\ disk[1].id = 1
    /\ disk[2].id = 3

\* Arguments of add and edit that are to end in a user-facing error: a flag
\* the validators reject, or an id no session has.
BadAdd(args) == args \in AddBad

BadEdit(args, ss) ==
    \/ args.id \notin IdsOf(ss)
    \/ \E f \in DOMAIN EditBad : args[f] = Some(EditBad[f])

\* C5: whenever add or edit ends in a user-facing error (and it does when a
\* flag is malformed, the game unknown, hands or tables negative, the id
\* unknown), the file is exactly what it was before the command, also when
\* earlier flags of the same edit were applied to the session in memory.
C5_NoSaveOnError ==
    [][Idle =>
        (/\ (last'.cmd = "add" /\ BadAdd(last'.args) => last'.status = "error")
         /\ (last'.cmd = "edit" /\ BadEdit(last'.args, disk) => last'.status = "error")
         /\ (last'.cmd \in {"add", "edit"} /\ last'.status = "error" => disk' = disk))]_vars

\* An edit has ended in an error after it changed the session in memory.
C5_Witness ==
    /\ last.cmd = "edit"
    /\ last.status = "error"
    /\ Len(disk) >= 2
    /\ sessions # load_or_init_sessions(disk)

\* The session field each flag of edit sets.
FieldOf ==
    [date |-> "date", start |-> "start_time", end |-> "end_time", profit |-> "profit",
     stake |-> "stake", game |-> "game", hands |-> "hands", tables |-> "tables",
     notes |-> "notes"]

\* C6: a successful edit of session X with fields supplied changes in X only
\* the supplied fields, duration_min (only when start or end was supplied),
\* currency (set to the configured value) and updated_at; X's id, created_at
\* and every field not supplied keep their values, every other session is
\* unchanged, and so is the order of the store.
C6_EditFrame ==
    [][(Idle /\ last'.cmd = "edit" /\ last'.status = "ok") =>
        LET args == last'.args
            ss == load_or_init_sessions(disk)
        IN  /\ Supplied(args) # {}
            /\ Len(disk') = Len(disk)
            /\ sessions' = load_or_init_sessions(disk')
            /\ \E i \in Indices(ss) :
                /\ ss[i].id = args.id
                /\ \A j \in Indices(ss) \ {i} : sessions'[j] = ss[j]
                /\ sessions'[i].id = ss[i].id
                /\ sessions'[i].room = ss[i].room
                /\ sessions'[i].created_at = ss[i].created_at
                /\ \A f \in EditFlags \ Supplied(args) :
                       sessions'[i][FieldOf[f]] = ss[i][FieldOf[f]]
                /\ Supplied(args) \cap {"start", "end"} = {}
                       => sessions'[i].duration_min = ss[i].duration_min
                /\ sessions'[i].currency = cfg.currency
                /\ sessions'[i].updated_at = now]_vars

\* An edit with one field has succeeded on the second of two sessions, later
\* than the session was added and after the configured currency changed.
C6_Witness ==
    /\ last.cmd = "edit"
    /\ last.status = "ok"
    /\ Cardinality(Supplied(last.args)) = 1
    /\ Len(disk) = 2
    /\ disk[2].id = last.args.id
    /\ disk[2].created_at < disk[2].updated_at
    /\ disk[2].currency # disk[1].currency

-----------------------------------------------------------------------------
(* Properties of the duration *)

\* C7: for every pair of valid HH:MM times calc_duration_minutes returns
\* end - start in minutes when end >= start, and end + 24h - start when end
\* is strictly earlier than start; the result is in 0..1439, is 0 exactly
\* when start equals end, and 22:00->02:00 gives 240, 09:00->09:00 gives 0,
\* 09:30->11:15 gives 105.
C7_DurationOfValidTimes ==
    last.cmd = "calc_duration_minutes" =>
        LET a == last.args
            start == 60 * a.sh + a.sm
            end == 60 * a.eh + a.em
        IN  /\ end >= start => last.ret = end - start
            /\ end < start => last.ret = end + 24 * 60 - start
            /\ last.ret \in 0..1439
            /\ last.ret = 0 <=> start = end
            /\ a.start_hm = T_2200 /\ a.end_hm = T_0200 => last.ret = 240
            /\ a.start_hm = T_0900 /\ a.end_hm = T_0900 => last.ret = 0
            /\ a.start_hm = T_0930 /\ a.end_hm = T_1115 => last.ret = 105

\* The duration of a session over midnight, from 22:00 to 02:00, was computed.
C7_Witness ==
    /\ last.cmd = "calc_duration_minutes"
    /\ last.args.start_hm = T_2200
    /\ last.args.end_hm = T_0200
    /\ last.ret = 240

-----------------------------------------------------------------------------
(* Properties of the filter *)

\* Equal ignoring case.
SameIgnoringCase(a, b) == upper(a) = upper(b)

\* Equal once the blanks around both are taken off, ignoring case.
SameTrimmedIgnoringCase(a, b) == upper(strip(a)) = upper(strip(b))

\* a <= b of two dates written YYYY-MM-DD
DateLeq(a, b) == ~StrLess(b, a)

\* Every supplied constraint as the claim reads: a constraint is absent when
\* it is None.
SatisfiesSupplied(s, a) ==
    /\ IsNone(a.from_date) \/ DateLeq(Get(a.from_date), s.date)
    /\ IsNone(a.to_date) \/ DateLeq(s.date, Get(a.to_date))
    /\ IsNone(a.stake) \/ SameIgnoringCase(s.stake, Get(a.stake))
    /\ IsNone(a.game) \/ SameIgnoringCase(s.game, Get(a.game))

\* Every constraint that is given and not empty, stake and game compared
\* without the blanks around them.
SatisfiesGiven(s, a) ==
    /\ ~Truthy(a.from_date) \/ DateLeq(Get(a.from_date), s.date)
    /\ ~Truthy(a.to_date) \/ DateLeq(s.date, Get(a.to_date))
    /\ ~Truthy(a.stake) \/ SameTrimmedIgnoringCase(s.stake, Get(a.stake))
    /\ ~Truthy(a.game) \/ SameTrimmedIgnoringCase(s.game, Get(a.game))

FilterReturned == last.cmd = "filter_sessions" /\ last.status = "ok"

InSeq(x, seq) == \E i \in 1..Len(seq) : seq[i] = x

\* A session dated 2024-06-15 is in [2024-06-01, 2024-06-30] and not in
\* [2024-06-16, 2024-06-30].
FilterExample ==
    \A i \in Indices(sessions) :
        (sessions[i].date = D_0615 /\ IsNone(last.args.stake) /\ IsNone(last.args.game)
         /\ last.args.to_date = Some(D_0630))
            => /\ last.args.from_date = Some(D_0601) => InSeq(sessions[i], last.ret)
               /\ last.args.from_date = Some(D_0616) => ~InSeq(sessions[i], last.ret)

\* C8 as claimed: filter_sessions returns, in their original relative order,
\* exactly the sessions that satisfy every supplied constraint: date >= from,
\* date <= to (both inclusive), stake equal ignoring case, game equal ignoring
\* case; an absent constraint excludes nothing, so with no constraint the
\* result is the whole input.
C8_FilterAsClaimed ==
    FilterReturned =>
        LET Sat(s) == SatisfiesSupplied(s, last.args)
        IN  last.ret = SelectSeq(sessions, Sat)

\* C8, amended: filter_sessions returns, in their original relative order,
\* exactly the sessions that satisfy every constraint that is given and not
\* the empty string: date >= from, date <= to (both inclusive), stake and
\* game equal once both sides are stripped of surrounding whitespace and
\* upper-cased; a constraint that is absent or empty excludes nothing, so
\* with no constraint the result is the whole input.  A session dated
\* 2024-06-15 is in [2024-06-01, 2024-06-30] and not in
\* [2024-06-16, 2024-06-30].
C8_FilterGivenConstraints ==
    FilterReturned =>
        LET Sat(s) == SatisfiesGiven(s, last.args)
            a == last.args
        IN  /\ last.ret = SelectSeq(sessions, Sat)
            /\ (~Truthy(a.from_date) /\ ~Truthy(a.to_date) /\ ~Truthy(a.stake)
                /\ ~Truthy(a.game)) => last.ret = sessions
            /\ FilterExample

\* A stake written with a blank in front and a first day have kept one of two
\* sessions.
C8_Witness ==
    /\ FilterReturned
    /\ last.args.stake = Some(<<" ", "n", "l", "1", "0">>)
    /\ last.args.from_date = Some(D_0616)
    /\ Len(sessions) = 2
    /\ Len(last.ret) = 1

-----------------------------------------------------------------------------
(* Properties of the grouping *)

\* stats has grouped by stake or by game.
StatsGrouped ==
    /\ last.cmd = "stats"
    /\ last.status = "ok"
    /\ ~IsNone(last.args.by)
    /\ lower(strip(Get(last.args.by))) \in {BY_stake, BY_game}

\* The stored value a session is grouped by.
KeyOf(s) == IF lower(strip(Get(last.args.by))) = BY_stake THEN s.stake ELSE s.game

\* The groups that hold the session s.
GroupsHolding(s, groups) == {k \in 1..Len(groups) : InSeq(s, groups[k].sessions)}

\* C9: when stats groups by stake or by game, the groups partition the
\* filtered set: every filtered session is in exactly one group, the group
\* keyed by its exact stored stake or game; no group is empty; the union of
\* the groups is the filtered set; and the groups are reported in ascending
\* order of key.
C9_GroupsPartitionFiltered ==
    StatsGrouped =>
        LET filtered == last.ret.filtered
            groups == last.ret.groups
        IN  /\ \A i \in Indices(filtered) :
                   \E k \in Indices(groups) :
                       /\ GroupsHolding(filtered[i], groups) = {k}
                       /\ groups[k].key = KeyOf(filtered[i])
            /\ \A k \in Indices(groups) : groups[k].sessions # <<>>
            /\ UNION {{groups[k].sessions[j] : j \in Indices(groups[k].sessions)} :
                          k \in Indices(groups)}
                   = {filtered[i] : i \in Indices(filtered)}
            /\ \A k \in Indices(groups) :
                   \A i, j \in Indices(groups[k].sessions) :
                       groups[k].sessions[i] = groups[k].sessions[j] => i = j
            /\ \A k, l \in Indices(groups) : k < l => StrLess(groups[k].key, groups[l].key)

\* stats by stake has reported two groups, the group of the later session
\* first.
C9_Witness ==
    /\ StatsGrouped
    /\ Len(last.ret.groups) = 2
    /\ last.ret.groups[1].key = upper(K_nl10)
    /\ last.ret.filtered[1].stake = K_zoom

-----------------------------------------------------------------------------
(* Properties of the summary *)

SummaryReturned == last.cmd = "compute_stats_block"

\* Where the session of this id stands in the input.
PositionOf(s) == CHOOSE i \in Indices(sessions) : sessions[i].id = s.id

Min(a, b) == IF a < b THEN a ELSE b

\* a >= b of two profits
ProfitGeq(a, b) == ~a.profit.nan /\ ~b.profit.nan /\ a.profit.v >= b.profit.v

\* The list holds sessions of the input, none of them twice.
FromInput(list) ==
    /\ \A i \in Indices(list) : InSeq(list[i], sessions)
    /\ \A i, j \in Indices(list) : list[i].id = list[j].id => i = j

\* Sessions of equal profit stand in the list in the order of the input.
TiesInInputOrder(list) ==
    \A i, j \in Indices(list) :
        (i < j /\ list[i].profit = list[j].profit)
            => PositionOf(list[i]) < PositionOf(list[j])

\* C10: for any session list, compute_stats_block returns best and worst each
\* of length min(3, count); best is in non-increasing profit order and worst
\* in non-decreasing profit order; each holds the sessions with the highest
\* (resp. lowest) profits; sessions of equal profit appear in both lists in
\* the order they had in the input; with 2 sessions of different profit both
\* lists hold those 2 in opposite orders.
C10_BestAndWorst ==
    SummaryReturned =>
        LET best == last.ret.best
            worst == last.ret.worst
        IN  /\ Len(best) = Min(3, Len(sessions))
            /\ Len(worst) = Min(3, Len(sessions))
            /\ FromInput(best)
            /\ FromInput(worst)
            /\ \A i, j \in Indices(best) : i < j => ProfitGeq(best[i], best[j])
            /\ \A i, j \in Indices(worst) : i < j => ProfitGeq(worst[j], worst[i])
            /\ \A i \in Indices(sessions) :
                   /\ ~InSeq(sessions[i], best)
                          => \A j \in Indices(best) : ProfitGeq(best[j], sessions[i])
                   /\ ~InSeq(sessions[i], worst)
                          => \A j \in Indices(worst) : ProfitGeq(sessions[i], worst[j])
            /\ TiesInInputOrder(best)
            /\ TiesInInputOrder(worst)
            /\ (Len(sessions) = 2 /\ sessions[1].profit # sessions[2].profit)
                   => (/\ Len(best) = 2
                       /\ worst = <<best[2], best[1]>>
                       /\ {best[1], best[2]} = {sessions[1], sessions[2]})

\* The total duration of the sessions summarised.
TotalDuration == SumMinutes(sessions)

NoHandsRecorded == \A i \in Indices(sessions) : IsNone(sessions[i].hands)

\* C11: compute_stats_block never divides by zero: avg_profit is 0 when the
\* session set is empty; profit_per_hour is 0 whenever the total duration is
\* 0, whatever the total profit; hands_per_hour is unknown whenever the total
\* duration is 0 or no session records hands; hands_total is unknown (not 0)
\* exactly when no session in the set has hands recorded.
C11_NoDivisionByZero ==
    SummaryReturned =>
        LET blk == last.ret
        IN  /\ blk.avg_profit.den # 0
            /\ blk.profit_per_hour.den # 0
            /\ ~IsNone(blk.hands_per_hour) => Get(blk.hands_per_hour).den # 0
            /\ sessions = <<>> => blk.avg_profit = Zero
            /\ TotalDuration = 0 => blk.profit_per_hour = Zero
            /\ (TotalDuration = 0 \/ NoHandsRecorded) => IsNone(blk.hands_per_hour)
            /\ IsNone(blk.hands_total) <=> NoHandsRecorded

\* A session without time played, with a profit and with hands recorded, was
\* summarised together with a session whose hands are recorded as 0.
C11_Witness ==
    /\ SummaryReturned
    /\ Len(sessions) = 2
    /\ TotalDuration = 0
    /\ ~last.ret.total_profit.nan
    /\ last.ret.total_profit.v # 0
    /\ sessions[2].hands = Some(0)
    /\ last.ret.hands_total = Some(100)

-----------------------------------------------------------------------------
(* Properties of the configuration *)

\* load_or_init_config has read a file that holds an object.
ConfigRead == last.cmd = "load_or_init_config" /\ last.args.kind = F_object

\* The recognized keys the object lacks are filled with their defaults and
\* the merged configuration is written back; a complete object is left as it
\* is.
MissingKeysFilled ==
    LET before == last.args.obj
    IN  /\ last.status = "ok"
        /\ ConfigKeys \subseteq DOMAIN last.ret
        /\ \A k \in ConfigKeys :
               last.ret[k] = IF k \in DOMAIN before THEN before[k] ELSE DEFAULT_CONFIG[k]
        /\ cfg = IF ConfigKeys \subseteq DOMAIN before THEN before ELSE last.ret

\* C12 as claimed: reading a configuration document, a key outside the
\* recognized set {currency, data_file, timezone, date_format, week_start} is
\* rejected (the load fails instead of keeping the key); a recognized key that
\* is missing is filled with its default, and the merged configuration is
\* written back.
C12_UnknownKeyRejectedOnRead ==
    ConfigRead =>
        IF DOMAIN last.args.obj \subseteq ConfigKeys
        THEN MissingKeysFilled
        ELSE last.status = "error" /\ cfg = last.args.obj

\* C12, amended: reading a configuration document, a key outside the
\* recognized set {currency, data_file, timezone, date_format, week_start} is
\* kept (the load succeeds and the configuration returned holds the key with
\* its value); a recognized key that is missing is filled with its default,
\* and the merged configuration is written back.
C12_UnknownKeyKeptOnRead ==
    ConfigRead =>
        /\ MissingKeysFilled
        /\ DOMAIN last.ret = ConfigKeys \cup DOMAIN last.args.obj
        /\ \A k \in DOMAIN last.args.obj \ ConfigKeys : last.ret[k] = last.args.obj[k]

\* An object without timezone, with the currency EUR and with a key that is
\* not recognized has been read and written back.
C12_Witness ==
    /\ ConfigRead
    /\ last.status = "ok"
    /\ "timezone" \notin DOMAIN last.args.obj
    /\ "colour" \in DOMAIN last.args.obj
    /\ last.ret.currency = "EUR"
    /\ last.ret.colour = "red"
    /\ cfg = last.ret

-----------------------------------------------------------------------------
(* Properties of the stored duration *)

InStep(d) ==
    /\ d.duration_min = calc_duration_minutes(d.start_time, d.end_time)
    /\ d.duration_min \in 0..1439
    /\ d.game \in {NLH, PLO}

\* C13: in every state reached from the empty store by add, edit and delete,
\* every stored session has duration_min = calc_duration_minutes(start_time,
\* end_time) of its stored times, 0 <= duration_min <= 1439, and its game is
\* NLH or PLO; no edit (of start only, of end only, of both, of other fields)
\* leaves a stored duration out of step with the stored times.
C13_StoredDurationInStep == \A i \in Indices(disk) : InStep(disk[i])

\* An edit of the start alone has turned a session from 22:00 to 02:00 into
\* one from 09:30 to 02:00, of 990 minutes.
C13_Witness ==
    /\ last.cmd = "edit"
    /\ last.status = "ok"
    /\ Supplied(last.args) = {"start"}
    /\ \E i \in Indices(disk) :
           /\ disk[i].id = last.args.id
           /\ disk[i].start_time = T_0930
           /\ disk[i].end_time = T_0200
           /\ disk[i].duration_min = 990

-----------------------------------------------------------------------------
(* Properties of the --by error *)

ByError == "--by must be one of: stake, game"

\* stats has come to its grouping: its range and its filter raised nothing.
StatsReachedGrouping ==
    /\ last.cmd = "stats"
    /\ last.status = "ok" \/ last.msg = ByError

\* A grouping attribute other than stake or game is supplied.
OtherAttributeSupplied ==
    /\ Truthy(last.args.by)
    /\ lower(strip(Get(last.args.by))) \notin {BY_stake, BY_game}

\* C14: stats fails with the "--by must be one of: stake, game" user error
\* exactly when a grouping attribute other than stake or game is supplied:
\* grouping by stake or by game never raises it, whatever the filtered set is,
\* also when no session matches the filters, and omitting the grouping never
\* raises it.
C14_ByErrorOnlyForOtherAttribute ==
    StatsReachedGrouping =>
        ((last.status = "error" /\ last.msg = ByError) <=> OtherAttributeSupplied)

=============================================================================
